---- MODULE Spec2Model ----
(***************************************************************************)
(* Model of ai_data_visualisation_agent.py: the code-block extractor       *)
(* (pattern, match_code_blocks), the orchestration loop (chat_with_llm,    *)
(* code_interpret), the dataset upload and the Analyze handler of main     *)
(* with its result renderer.                                               *)
(*                                                                         *)
(* Text is a sequence of lexical tokens: "F" is a run of three backticks,  *)
(* "P" the word python, "N" a newline and "X" any other text.              *)
(***************************************************************************)
EXTENDS Integers, Sequences, FiniteSets, TLC

VARIABLES
    gemini_api_key,      \* st.session_state.gemini_api_key is non-empty
    e2b_api_key,         \* st.session_state.e2b_api_key is non-empty
    pc,                  \* position of the Analyze handler
    sandbox,             \* "none", "open" or "closed": the Sandbox of the with block
    raised,              \* an exception is propagating out of the with block
    sandbox_opens,       \* Sandbox(...) entered, this run of the script
    uploads,             \* files.write calls, this run of the script
    model_calls,         \* generate_content calls, this run of the script
    exec_calls,          \* run_code calls, this run of the script
    model_status,        \* "none", "ok" or "failed": how generate_content ended
    response_text,       \* chat_with_llm's response_text
    python_code,         \* chat_with_llm's python_code
    outcome,             \* the return statement chat_with_llm left by
    code_results,        \* main's code_results (an Optional list)
    llm_response,        \* main's llm_response
    visualization_count, \* main's visualization_count
    idx,                 \* position of the renderer in code_results (1-based)
    ui                   \* the display calls made on the page, in order

vars == <<gemini_api_key, e2b_api_key, pc, sandbox, raised, sandbox_opens, uploads,
          model_calls, exec_calls, model_status, response_text, python_code, outcome,
          code_results, llm_response, visualization_count, idx, ui>>

-----------------------------------------------------------------------------
(* Bounds *)

\* longest text given to the extractor on its own
MaxTextLen == 8

\* longest result list run_code returns
MaxResults == 2

\* longest code, and longest text between the blocks, of a text made of two blocks
MaxCodeLen == 1

-----------------------------------------------------------------------------
(* Text and the extractor *)

Tokens == {"F", "P", "N", "X"}

\* the sequences over S of length at most n
SeqsUpTo(S, n) == UNION {[1..k -> S] : k \in 0..n}

Texts(n) == SeqsUpTo(Tokens, n)

\* a python-tagged fenced block around code c
Fenced(c) == <<"F", "P", "N">> \o c \o <<"N", "F">>

\* what the model answers in the orchestration loop
ResponseTexts ==
    { <<>>,                                                \* nothing
      <<"X">>,                                             \* prose only
      <<"X", "N", "F", "N", "X", "N", "F">>,               \* a fence without the tag
      <<"F", "P", "N", "X">>,                              \* a block never closed
      Fenced(<<>>),                                        \* an empty block
      Fenced(<<"X">>),                                     \* a block of code
      <<"X", "N">> \o Fenced(<<"X">>) \o <<"N">>,          \* prose around a block
      Fenced(<<"X">>) \o <<"N">> \o Fenced(<<"P", "X">>) } \* two blocks

NoMatch == [found |-> FALSE, start |-> 0, gstart |-> 0, gend |-> 0]

\* the literal ```python\n at position i
OpensAt(s, i) ==
    /\ i + 2 <= Len(s)
    /\ s[i] = "F" /\ s[i + 1] = "P" /\ s[i + 2] = "N"

\* the literal \n``` at position j
ClosesAt(s, j) ==
    /\ j >= 1
    /\ j + 1 <= Len(s)
    /\ s[j] = "N" /\ s[j + 1] = "F"

\* (.*?) with DOTALL: the group grows one token at a time until the rest of the
\* pattern matches; 0 when it never does
RECURSIVE LazyGroupEnd(_, _)
LazyGroupEnd(s, j) ==
    IF j + 1 > Len(s) THEN 0
    ELSE IF ClosesAt(s, j) THEN j
    ELSE LazyGroupEnd(s, j + 1)

\* (.*) instead of (.*?): the group shrinks from the end of the text
RECURSIVE GreedyGroupEndFrom(_, _, _)
GreedyGroupEndFrom(s, lo, j) ==
    IF j < lo THEN 0
    ELSE IF ClosesAt(s, j) THEN j
    ELSE GreedyGroupEndFrom(s, lo, j - 1)

GreedyGroupEnd(s, j) == GreedyGroupEndFrom(s, j, Len(s) - 1)

\* the closing fence without its newline: ```python\n(.*?)```
RECURSIVE NoNewlineGroupEnd(_, _)
NoNewlineGroupEnd(s, j) ==
    IF j > Len(s) THEN 0
    ELSE IF s[j] = "F" THEN j
    ELSE NoNewlineGroupEnd(s, j + 1)

GroupEnd(s, j) == LazyGroupEnd(s, j)

\* pattern.search: the leftmost position the pattern matches at
RECURSIVE SearchFrom(_, _)
SearchFrom(s, i) ==
    IF i + 2 > Len(s) THEN NoMatch
    ELSE IF OpensAt(s, i) /\ GroupEnd(s, i + 3) # 0
         THEN [found |-> TRUE, start |-> i, gstart |-> i + 3,
               gend |-> GroupEnd(s, i + 3)]
         ELSE SearchFrom(s, i + 1)

pattern_search(s) == SearchFrom(s, 1)

\* match.group(1): the tokens from gstart up to, not including, gend
Group1(s, m) == SubSeq(s, m.gstart, m.gend - 1)

match_code_blocks(llm_text) ==
    LET match == pattern_search(llm_text)
    IN  IF match.found THEN Group1(llm_text, match) ELSE <<>>

-----------------------------------------------------------------------------
(* Values *)

\* Optional[List[Any]]
None == [some |-> FALSE, val |-> <<>>]
Some(l) == [some |-> TRUE, val |-> l]

\* `if code_results:` is false of None and of the empty list
Truthy(r) == r.some /\ r.val # <<>>

\* the first component of what chat_with_llm returns: from its except clause, from
\* the else branch of `if python_code:`, and what code_interpret returns on exec.error
ReturnOnModelError == None
ReturnOnNoCode == None
ReturnOnExecError == None

\* the text chat_with_llm returns when the model call raised: "Error: <msg>. Please
\* select a different model or verify your API key ..."
ErrorText == <<"X">>

\* A result item is what the renderer's tests can see of it: png is
\* `hasattr(result, 'png') and result.png`, figure is `hasattr(result, 'figure')`,
\* plotly is `hasattr(result, 'show') or 'plotly' in str(type(result)).lower()`,
\* type is the isinstance class.
Item(png, figure, plotly, type) ==
    [png |-> png, figure |-> figure, plotly |-> plotly, type |-> type]

Items ==
    { Item(TRUE, FALSE, FALSE, "obj"),        \* an image
      Item(FALSE, TRUE, FALSE, "obj"),        \* a matplotlib figure
      Item(FALSE, FALSE, TRUE, "obj"),        \* a plotly chart
      Item(FALSE, FALSE, FALSE, "DataFrame"), \* a table
      Item(FALSE, FALSE, FALSE, "str"),       \* a text
      Item(FALSE, FALSE, FALSE, "num"),       \* a scalar
      Item(FALSE, FALSE, FALSE, "obj"),       \* none of these
      Item(TRUE, TRUE, FALSE, "obj"),         \* an image that also has a figure
      Item(FALSE, TRUE, FALSE, "DataFrame") } \* a table with a column named figure

ResultLists == SeqsUpTo(Items, MaxResults)

\* the if/elif chain of the renderer
KindOf(r) ==
    IF r.png THEN "image"
    ELSE IF r.figure THEN "figure"
    ELSE IF r.plotly THEN "plotly"
    ELSE IF r.type = "DataFrame" THEN "table"
    ELSE IF r.type = "str" THEN "text"
    ELSE IF r.type = "num" THEN "scalar"
    ELSE "other"

\* one display call: op is the streamlit call, pos the 1-based position of the item
\* it is made for (0 outside the loop), n the number shown in it (0 when none is)
Ev(op, pos, n) == [op |-> op, pos |-> pos, n |-> n]

ConfigError == Ev("error_keys", 0, 0)
UploadError == Ev("error_upload", 0, 0)
ModelError == Ev("error_model", 0, 0)
NoCodeWarning == Ev("warning_no_code", 0, 0)
NoVisWarning == Ev("warning_no_visualization", 0, 0)

Rest == {"idle", "done", "aborted"}

-----------------------------------------------------------------------------
(* The decisions of the handlers *)

\* main: `if not gemini_api_key or not e2b_api_key`
KeysMissingBoth(g, e) == ~g /\ ~e

KeysMissing(g, e) == ~g \/ ~e

\* chat_with_llm: `if python_code:`
HasCodeAlways(code) == TRUE

HasCode(code) == code # <<>>

\* chat_with_llm: the except clause returns, it does not loop
RetryAfterModelError == "chat"

AfterModelError == "show"

\* the with statement: Sandbox.__exit__ runs however the block is left
LeakOnException(exc) == IF exc THEN "open" ELSE "closed"

SandboxAfterExit(exc) == "closed"

\* the branches that do `visualization_count += 1`
CountedWithoutPlotly(kind) == IF kind \in {"image", "figure"} THEN 1 ELSE 0

Counted(kind) == IF kind \in {"image", "figure", "plotly"} THEN 1 ELSE 0

\* the branches whose display calls are inside a try/except
Guarded(kind) == kind \in {"image", "figure", "plotly", "other"}

\* st.image(..., caption=f"Visualization {visualization_count}")
CaptionByPosition(count, pos) == pos

Caption(count, pos) == count

\* the display call of each branch
DisplayOp(kind) ==
    CASE kind = "image" -> "image"
      [] kind = "figure" -> "pyplot"
      [] kind = "plotly" -> "plotly_chart"
      [] kind = "table" -> "dataframe"
      [] kind = "text" -> "text"
      [] kind = "scalar" -> "metric"
      [] kind = "other" -> "write"

\* the calls a branch makes before its display call
Heading(kind, pos) ==
    CASE kind = "table" -> <<Ev("subheader_table", pos, pos)>>
      [] kind = "other" -> <<Ev("write_label", pos, pos)>>
      [] OTHER -> <<>>

-----------------------------------------------------------------------------
(* The Analyze handler *)

Init ==
    /\ gemini_api_key \in BOOLEAN
    /\ e2b_api_key \in BOOLEAN
    /\ pc = "idle"
    /\ sandbox = "none"
    /\ raised = FALSE
    /\ sandbox_opens = 0
    /\ uploads = 0
    /\ model_calls = 0
    /\ exec_calls = 0
    /\ model_status = "none"
    /\ response_text = <<>>
    /\ python_code = <<>>
    /\ outcome = "none"
    /\ code_results = None
    /\ llm_response = <<>>
    /\ visualization_count = 0
    /\ idx = 0
    /\ ui = <<>>

\* a run of the script starts from a blank page: nothing of the last run is kept but
\* the session state
FreshRun ==
    /\ sandbox' = "none"
    /\ raised' = FALSE
    /\ sandbox_opens' = 0
    /\ uploads' = 0
    /\ model_calls' = 0
    /\ exec_calls' = 0
    /\ model_status' = "none"
    /\ response_text' = <<>>
    /\ python_code' = <<>>
    /\ outcome' = "none"
    /\ code_results' = None
    /\ llm_response' = <<>>
    /\ visualization_count' = 0
    /\ idx' = 0

\* the user edits the keys in the sidebar: the script reruns, Analyze not pressed
EnterKeys ==
    /\ pc \in Rest
    /\ \E g \in BOOLEAN, e \in BOOLEAN :
        /\ gemini_api_key' = g
        /\ e2b_api_key' = e
    /\ FreshRun
    /\ ui' = <<>>
    /\ pc' = "idle"

\* st.button("Analyze") with a key missing
AnalyzeWithoutKeys ==
    /\ pc \in Rest
    /\ KeysMissing(gemini_api_key, e2b_api_key)
    /\ FreshRun
    /\ ui' = <<ConfigError>>
    /\ pc' = "done"
    /\ UNCHANGED <<gemini_api_key, e2b_api_key>>

\* st.button("Analyze") with both keys
Analyze ==
    /\ pc \in Rest
    /\ ~KeysMissing(gemini_api_key, e2b_api_key)
    /\ FreshRun
    /\ ui' = <<>>
    /\ pc' = "open"
    /\ UNCHANGED <<gemini_api_key, e2b_api_key>>

\* with Sandbox(api_key=...) as code_interpreter
OpenSandbox ==
    /\ pc = "open"
    /\ \/ /\ sandbox' = "open"
          /\ sandbox_opens' = sandbox_opens + 1
          /\ pc' = "upload"
          /\ UNCHANGED raised
       \/ /\ raised' = TRUE
          /\ pc' = "aborted"
          /\ UNCHANGED <<sandbox, sandbox_opens>>
    /\ UNCHANGED <<gemini_api_key, e2b_api_key, uploads, model_calls, exec_calls,
                   model_status, response_text, python_code, outcome, code_results,
                   llm_response, visualization_count, idx, ui>>

upload_dataset ==
    /\ pc = "upload"
    /\ uploads' = uploads + 1
    /\ \/ /\ pc' = "chat"
          /\ UNCHANGED <<raised, ui>>
       \/ /\ ui' = Append(ui, UploadError)
          /\ raised' = TRUE
          /\ pc' = "exit"
    /\ UNCHANGED <<gemini_api_key, e2b_api_key, sandbox, sandbox_opens, model_calls,
                   exec_calls, model_status, response_text, python_code, outcome,
                   code_results, llm_response, visualization_count, idx>>

\* chat_with_llm up to the end of its try statement
generate_content ==
    /\ pc = "chat"
    /\ model_calls' = model_calls + 1
    /\ \/ /\ \E t \in ResponseTexts : response_text' = t
          /\ model_status' = "ok"
          /\ pc' = "extract"
          /\ UNCHANGED <<outcome, code_results, llm_response, ui>>
       \/ /\ model_status' = "failed"
          /\ ui' = Append(ui, ModelError)
          /\ outcome' = "model_error"
          /\ code_results' = ReturnOnModelError
          /\ llm_response' = ErrorText
          /\ pc' = AfterModelError
          /\ UNCHANGED response_text
    /\ UNCHANGED <<gemini_api_key, e2b_api_key, sandbox, raised, sandbox_opens, uploads,
                   exec_calls, python_code, visualization_count, idx>>

\* chat_with_llm: extract the code and decide whether to run it
extract_code ==
    /\ pc = "extract"
    /\ python_code' = match_code_blocks(response_text)
    /\ IF HasCode(python_code')
       THEN /\ pc' = "exec"
            /\ UNCHANGED <<outcome, code_results, llm_response, ui>>
       ELSE /\ ui' = Append(ui, NoCodeWarning)
            /\ outcome' = "no_code"
            /\ code_results' = ReturnOnNoCode
            /\ llm_response' = response_text
            /\ pc' = "show"
    /\ UNCHANGED <<gemini_api_key, e2b_api_key, sandbox, raised, sandbox_opens, uploads,
                   model_calls, exec_calls, model_status, response_text,
                   visualization_count, idx>>

\* code_interpret, and chat_with_llm's return of its result
code_interpret ==
    /\ pc = "exec"
    /\ exec_calls' = exec_calls + 1
    /\ \/ /\ \E r \in ResultLists : code_results' = Some(r)
          /\ outcome' = "executed"
          /\ llm_response' = response_text
          /\ pc' = "show"
          /\ UNCHANGED raised
       \/ /\ code_results' = ReturnOnExecError
          /\ outcome' = "exec_error"
          /\ llm_response' = response_text
          /\ pc' = "show"
          /\ UNCHANGED raised
       \/ /\ raised' = TRUE
          /\ pc' = "exit"
          /\ UNCHANGED <<code_results, outcome, llm_response>>
    /\ UNCHANGED <<gemini_api_key, e2b_api_key, sandbox, sandbox_opens, uploads,
                   model_calls, model_status, response_text, python_code,
                   visualization_count, idx, ui>>

\* main: the response, the section header and the test of code_results
ShowResponse ==
    /\ pc = "show"
    /\ IF Truthy(code_results)
       THEN /\ ui' = ui \o <<Ev("write_response", 0, 0), Ev("subheader_results", 0, 0)>>
            /\ visualization_count' = 0
            /\ idx' = 1
            /\ pc' = "render"
       ELSE /\ ui' = ui \o <<Ev("write_response", 0, 0), Ev("subheader_results", 0, 0),
                             NoVisWarning>>
            /\ pc' = "exit"
            /\ UNCHANGED <<visualization_count, idx>>
    /\ UNCHANGED <<gemini_api_key, e2b_api_key, sandbox, raised, sandbox_opens, uploads,
                   model_calls, exec_calls, model_status, response_text, python_code,
                   outcome, code_results, llm_response>>

\* main: one turn of `for idx, result in enumerate(code_results)`
RenderItem ==
    /\ pc = "render"
    /\ idx <= Len(code_results.val)
    /\ LET kind == KindOf(code_results.val[idx])
           count == visualization_count + Counted(kind)
           shown == Ev(DisplayOp(kind), idx,
                       IF kind = "image" THEN Caption(count, idx) ELSE 0)
       IN  /\ visualization_count' = count
           /\ \/ /\ ui' = ui \o Heading(kind, idx) \o <<shown>>
                 /\ idx' = idx + 1
                 /\ UNCHANGED <<pc, raised>>
              \/ /\ Guarded(kind)
                 /\ ui' = ui \o Heading(kind, idx) \o <<Ev("warning_item", idx, idx)>>
                 /\ idx' = idx + 1
                 /\ UNCHANGED <<pc, raised>>
              \/ /\ ~Guarded(kind)
                 /\ ui' = ui \o Heading(kind, idx)
                 /\ raised' = TRUE
                 /\ pc' = "exit"
                 /\ UNCHANGED idx
    /\ UNCHANGED <<gemini_api_key, e2b_api_key, sandbox, sandbox_opens, uploads,
                   model_calls, exec_calls, model_status, response_text, python_code,
                   outcome, code_results, llm_response>>

\* main: the loop is over; `if visualization_count == 0`
RenderEnd ==
    /\ pc = "render"
    /\ idx > Len(code_results.val)
    /\ ui' = IF visualization_count = 0 THEN Append(ui, NoVisWarning) ELSE ui
    /\ pc' = "exit"
    /\ UNCHANGED <<gemini_api_key, e2b_api_key, sandbox, raised, sandbox_opens, uploads,
                   model_calls, exec_calls, model_status, response_text, python_code,
                   outcome, code_results, llm_response, visualization_count, idx>>

\* the with block is left: Sandbox.__exit__
ExitSandbox ==
    /\ pc = "exit"
    /\ sandbox' = SandboxAfterExit(raised)
    /\ pc' = IF raised THEN "aborted" ELSE "done"
    /\ UNCHANGED <<gemini_api_key, e2b_api_key, raised, sandbox_opens, uploads,
                   model_calls, exec_calls, model_status, response_text, python_code,
                   outcome, code_results, llm_response, visualization_count, idx, ui>>

\* the steps the script takes by itself once Analyze is pressed
Run ==
    \/ OpenSandbox
    \/ upload_dataset
    \/ generate_content
    \/ extract_code
    \/ code_interpret
    \/ ShowResponse
    \/ RenderItem
    \/ RenderEnd
    \/ ExitSandbox

Next ==
    \/ EnterKeys
    \/ AnalyzeWithoutKeys
    \/ Analyze
    \/ Run

Spec == Init /\ [][Next]_vars

\* the script is synchronous: a started run takes its next step
FairSpec == Spec /\ WF_vars(Run)

-----------------------------------------------------------------------------
(* The extractor on its own *)

\* the texts given to the extractor: every text of at most MaxTextLen tokens, and
\* every text made of two blocks with at most MaxCodeLen tokens in, and between, them
ExtractInput(t) ==
    \/ \E k \in 0..MaxTextLen : t \in [1..k -> Tokens]
    \/ \E c1 \in Texts(MaxCodeLen), sep \in Texts(MaxCodeLen), c2 \in Texts(MaxCodeLen) :
           t = Fenced(c1) \o sep \o Fenced(c2)

InitExtract ==
    /\ gemini_api_key = TRUE
    /\ e2b_api_key = TRUE
    /\ pc = "text"
    /\ sandbox = "none"
    /\ raised = FALSE
    /\ sandbox_opens = 0
    /\ uploads = 0
    /\ model_calls = 0
    /\ exec_calls = 0
    /\ model_status = "none"
    /\ ExtractInput(response_text)
    /\ python_code = <<>>
    /\ outcome = "none"
    /\ code_results = None
    /\ llm_response = <<>>
    /\ visualization_count = 0
    /\ idx = 0
    /\ ui = <<>>

Extract ==
    /\ pc = "text"
    /\ python_code' = match_code_blocks(response_text)
    /\ pc' = "extracted"
    /\ UNCHANGED <<gemini_api_key, e2b_api_key, sandbox, raised, sandbox_opens, uploads,
                   model_calls, exec_calls, model_status, response_text, outcome,
                   code_results, llm_response, visualization_count, idx, ui>>

NextExtract == Extract

SpecExtract == InitExtract /\ [][NextExtract]_vars

-----------------------------------------------------------------------------
(* Properties *)

Range(q) == {q[k] : k \in 1..Len(q)}

Occurrences(q, e) == Cardinality({k \in 1..Len(q) : q[k] = e})

\* a visualization: an image or a chart
IsVis(r) == r.png \/ r.figure \/ r.plotly

\* the visualizations among the first k items of a list
VisUpTo(l, k) == Cardinality({j \in 1..k : IsVis(l[j])})

\* the model call has been made and chat_with_llm has extracted the code
Extracted == model_status = "ok" /\ pc # "extract"

\* chat_with_llm was entered and its model call is behind
PastModelCall ==
    /\ uploads = 1
    /\ UploadError \notin Range(ui)
    /\ pc # "chat"

\* C1: the remote executor is invoked only if the model call succeeded and the
\* extracted code is non-empty; when the model call fails or the extraction yields
\* empty code there is no remote execution and the loop returns no results.
C1_ExecOnlyWithCode ==
    /\ exec_calls > 0 =>
          /\ model_status = "ok"
          /\ python_code # <<>>
          /\ python_code = match_code_blocks(response_text)
    /\ (model_status = "failed" \/ (Extracted /\ python_code = <<>>)) =>
          /\ exec_calls = 0
          /\ pc \in {"show", "render", "exit", "done", "aborted"}
          /\ code_results = None

C1_Witness ==
    /\ pc = "done"
    /\ exec_calls = 1
    /\ model_status = "ok"
    /\ python_code # <<>>

\* C2: an invocation of the orchestration loop makes exactly one model call and at
\* most one remote execution on every path: no retry, no second model.
C2_OneModelCallAtMostOneExec ==
    /\ model_calls <= 1
    /\ exec_calls <= 1
    /\ PastModelCall => model_calls = 1

C2_Witness ==
    /\ pc = "done"
    /\ outcome = "exec_error"
    /\ model_calls = 1
    /\ exec_calls = 1

\* C3: with a credential missing, Analyze reports a configuration error and makes no
\* remote call: no sandbox, no upload, no model call, no remote execution.
C3_MissingKeyNoRemoteCalls ==
    (~gemini_api_key \/ ~e2b_api_key) =>
        /\ pc \in {"idle", "done"}
        /\ pc = "done" => ui = <<ConfigError>>
        /\ sandbox = "none"
        /\ sandbox_opens = 0
        /\ uploads = 0
        /\ model_calls = 0
        /\ exec_calls = 0

C3_Witness ==
    /\ pc = "done"
    /\ gemini_api_key
    /\ ~e2b_api_key
    /\ ui = <<ConfigError>>

\* C4: every upload and every remote execution happens while the sandbox is open, an
\* analysis never ends with its sandbox open, and every sandbox that was opened is
\* eventually released, on the error paths too.
C4_SandboxScoped ==
    /\ [][(uploads' > uploads \/ exec_calls' > exec_calls)
            => (sandbox = "open" /\ sandbox' = "open")]_vars
    /\ [](pc \in Rest => sandbox # "open")
    /\ (sandbox = "open") ~> (sandbox = "closed")

C4_Witness ==
    /\ pc = "aborted"
    /\ sandbox = "closed"
    /\ exec_calls = 1
    /\ Truthy(code_results)
    /\ idx = Len(code_results.val)

\* C5: what the caller of chat_with_llm receives for an execution error differs from
\* what it receives for a model error and for 'no code extracted'. (The other
\* component of the return value is the free text of the model.)
C5_ExecErrorDistinct ==
    outcome = "exec_error" =>
        /\ code_results # ReturnOnModelError
        /\ code_results # ReturnOnNoCode

\* the items of the list that have been displayed or warned about
Handled == {e.pos : e \in {d \in Range(ui) : d.pos > 0 /\ d.op \notin {"subheader_table", "write_label"}}}

\* C6: a display error is isolated per item, whatever the kind of the item: once the
\* renderer is left, every item of the list has been displayed or has its warning.
C6_DisplayErrorIsolated ==
    (Truthy(code_results) /\ pc \in {"exit", "done", "aborted"}) =>
        Handled = 1..Len(code_results.val)

\* the number of visualizations of the execution result; none when it is absent
NumVis == IF code_results.some THEN VisUpTo(code_results.val, Len(code_results.val)) ELSE 0

\* chat_with_llm returned and the renderer ran to its end
Rendered == outcome # "none" /\ pc \in {"exit", "done"} /\ ~raised

\* C7: once all items are dispatched, the 'no visualization' warning has been emitted
\* exactly once if no item was a visualization, and not at all otherwise; an empty
\* and an absent result each give exactly one.
C7_NoVisWarningOnce ==
    /\ Occurrences(ui, NoVisWarning) <= 1
    /\ NumVis > 0 => Occurrences(ui, NoVisWarning) = 0
    /\ Rendered => Occurrences(ui, NoVisWarning) = (IF NumVis = 0 THEN 1 ELSE 0)

C7_Witness ==
    /\ pc = "done"
    /\ code_results = Some(<<>>)
    /\ Occurrences(ui, NoVisWarning) = 1

\* the display calls and warnings made for the items, in the order they were made
ItemCalls ==
    SelectSeq(ui, LAMBDA e : e.pos > 0 /\ e.op \notin {"subheader_table", "write_label"})

\* C10: the items are dispatched in the order of the list, one display action (or
\* its warning) per item, and an image is captioned with the number of
\* visualizations at positions up to and including its own.
C10_OrderAndCounter ==
    Truthy(code_results) =>
        /\ \A k \in 1..Len(ItemCalls) : ItemCalls[k].pos = k
        /\ pc = "render" => Len(ItemCalls) = idx - 1
        /\ Rendered => Len(ItemCalls) = Len(code_results.val)
        /\ \A k \in 1..Len(ItemCalls) :
              ItemCalls[k].op = "image" =>
                  /\ code_results.val[k].png
                  /\ ItemCalls[k].n = VisUpTo(code_results.val, k)
        /\ \A k \in 1..Len(ItemCalls) :
              (code_results.val[k].png /\ ItemCalls[k].op # "warning_item") =>
                  ItemCalls[k].op = "image"

C10_Witness ==
    /\ pc = "done"
    /\ code_results = Some(<<Item(TRUE, FALSE, FALSE, "obj"),
                             Item(FALSE, FALSE, FALSE, "DataFrame")>>)
    /\ ItemCalls = <<Ev("image", 1, 1), Ev("dataframe", 2, 0)>>

\* the text holds a python-tagged fenced block: an opening ```python\n and, after
\* it, a closing \n```
HasBlock(s) ==
    \E i \in 1..Len(s) : OpensAt(s, i) /\ \E j \in (i + 3)..Len(s) : ClosesAt(s, j)

\* code is what the first block of s encloses: no opening before its opening, no
\* closing between its opening and its closing
IsFirstBlockCode(s, code) ==
    \E i \in 1..Len(s) : \E j \in (i + 3)..Len(s) :
        /\ OpensAt(s, i)
        /\ ClosesAt(s, j)
        /\ \A h \in 1..(i - 1) : ~OpensAt(s, h)
        /\ \A h \in (i + 3)..(j - 1) : ~ClosesAt(s, h)
        /\ code = SubSeq(s, i + 3, j - 1)

\* C8, as stated: the extracted code is non-empty if and only if the text holds a
\* python-tagged fenced block.
C8_NonEmptyIffBlock ==
    pc = "extracted" => (python_code # <<>> <=> HasBlock(response_text))

\* C8, amended: the extracted code is non-empty if and only if the text holds a
\* python-tagged fenced block and the first one encloses a non-empty text; without a
\* block the extractor returns the empty string.
C8_NonEmptyIffFirstBlockNonEmpty ==
    pc = "extracted" =>
        /\ python_code # <<>> <=>
              (HasBlock(response_text) /\ ~IsFirstBlockCode(response_text, <<>>))
        /\ ~HasBlock(response_text) => python_code = <<>>

C8_Witness ==
    /\ pc = "extracted"
    /\ HasBlock(response_text)
    /\ IsFirstBlockCode(response_text, <<>>)
    /\ python_code = <<>>

\* C9: for a text with one or more fenced blocks the extractor returns exactly what
\* the first block encloses, without the fences and with nothing of a later block.
C9_FirstBlockVerbatim ==
    (pc = "extracted" /\ HasBlock(response_text)) =>
        IsFirstBlockCode(response_text, python_code)

\* a text of two blocks, the second one with another code than the first
C9_Witness ==
    /\ pc = "extracted"
    /\ python_code = <<"X">>
    /\ response_text = Fenced(<<"X">>) \o <<"N">> \o Fenced(<<"P">>)

====
